---- MODULE Spec2Model ----
(***************************************************************************)
(* Connect4 (src/connect4.py) and its minimax agent (src/Agent.py).        *)
(*                                                                         *)
(* A board is the numpy array of the game: a flat tuple of n_rows * n_cols *)
(* cells in row-major order, 0 = empty, 1 / 2 = the player's piece; row 0  *)
(* is the top row and row n_rows - 1 the bottom row.                       *)
(***************************************************************************)
EXTENDS Integers, Sequences, FiniteSets, TLC

\* Connect4.__init__ defaults: the shape of the game and of its array.
n_rows == 6
n_cols == 7
n_to_win == 4

\* Agent.__init__ defaults: play() builds its agents as Agent.Agent(player),
\* so the agent always searches with these.
board_n_rows == 6
board_n_cols == 7
agent_n_to_win == 4

\* ai_move: depth_limit = 5
depth_limit == 5

Min(a, b) == IF a < b THEN a ELSE b

\* The flat position of board[row, col] (1-based tuple index).
idx(row, col) == row * n_cols + col + 1

\* board[row, col]
at(board, row, col) == board[idx(row, col)]

\* np.zeros((n_rows, n_cols), dtype=int)
EmptyBoard == [i \in 1..(n_rows * n_cols) |-> 0]

\* range(lo, hi) as a sequence
RECURSIVE range(_, _)
range(lo, hi) == IF lo >= hi THEN <<>> ELSE <<lo>> \o range(lo + 1, hi)

\* range(hi, lo, -1) as a sequence: hi, hi-1, ..., lo+1
RECURSIVE range_down(_, _)
range_down(hi, lo) == IF hi <= lo THEN <<>> ELSE <<hi>> \o range_down(hi - 1, lo)

(***************************************************************************)
(* Connect4: move validity, gravity, placement, win detection.             *)
(***************************************************************************)

\* A wrong Connect4.is_valid_move: the cell beneath is not looked at.
is_valid_move_floating(board, row, col) ==
    IF row < 0 \/ col < 0 \/ row >= n_rows \/ col >= n_cols THEN FALSE
    ELSE IF at(board, row, col) # 0 THEN FALSE
    ELSE TRUE

\* Connect4.is_valid_move
is_valid_move(board, row, col) ==
    IF row < 0 \/ col < 0 \/ row >= n_rows \/ col >= n_cols THEN FALSE
    ELSE IF at(board, row, col) # 0 THEN FALSE
    ELSE IF row < (n_rows - 1) /\ at(board, row + 1, col) = 0 THEN FALSE
    ELSE TRUE

\* Connect4.get_row: the first valid row searching bottom to top, else -1
RECURSIVE get_row_from(_, _, _)
get_row_from(board, column, row) ==
    IF row < 0 THEN -1
    ELSE IF is_valid_move(board, row, column) THEN row
    ELSE get_row_from(board, column, row - 1)

\* A wrong Connect4.get_row: the loop ends before row 0.
get_row_below_top(board, column) ==
    IF get_row_from(board, column, n_rows - 1) = 0 THEN -1
    ELSE get_row_from(board, column, n_rows - 1)

get_row(board, column) == get_row_from(board, column, n_rows - 1)

\* Connect4.execute_move: the array after board[row, column] = player
execute_move(board, row, column, player) ==
    [board EXCEPT ![idx(row, column)] = player]

\* The counting loop shared by is_horizontal_win and is_vertical_win:
\* cells is the row (or column) in scan order; returns n_consecutive_pieces
\* when the loop ends (break at n_to_win).
RECURSIVE count_loop(_, _, _, _)
count_loop(cells, i, player, n_consecutive_pieces) ==
    IF i > Len(cells) THEN n_consecutive_pieces
    ELSE IF cells[i] = player
         THEN IF n_consecutive_pieces + 1 = n_to_win
              THEN n_consecutive_pieces + 1
              ELSE count_loop(cells, i + 1, player, n_consecutive_pieces + 1)
         ELSE count_loop(cells, i + 1, player, 0)

\* A wrong Connect4.is_horizontal_win: more than n_to_win pieces are asked
\* for, which the loop never counts.
is_horizontal_win_strict(board, row, player) ==
    count_loop([c \in 1..n_cols |-> at(board, row, c - 1)], 1, player, 0) > n_to_win

\* Connect4.is_horizontal_win
is_horizontal_win(board, row, player) ==
    count_loop([c \in 1..n_cols |-> at(board, row, c - 1)], 1, player, 0) = n_to_win

\* Connect4.is_vertical_win
is_vertical_win(board, column, player) ==
    count_loop([r \in 1..n_rows |-> at(board, r - 1, column)], 1, player, 0) >= n_to_win

\* Connect4.is_diagonal_win: the offsets +1, +2, +3 are hardcoded in the source
is_diagonal_win(board, player) ==
    \/ \E column \in 0..(n_cols - n_to_win), row \in 0..(n_rows - n_to_win) :
          /\ at(board, row, column) = player
          /\ at(board, row + 1, column + 1) = player
          /\ at(board, row + 2, column + 2) = player
          /\ at(board, row + 3, column + 3) = player
    \/ \E column \in 0..(n_cols - n_to_win), row \in (n_rows - n_to_win + 1)..(n_rows - 1) :
          /\ at(board, row, column) = player
          /\ at(board, row - 1, column + 1) = player
          /\ at(board, row - 2, column + 2) = player
          /\ at(board, row - 3, column + 3) = player

\* Connect4.is_winning_move
is_winning_move(board, row, column, player) ==
    \/ is_horizontal_win(board, row, player)
    \/ is_vertical_win(board, column, player)
    \/ is_diagonal_win(board, player)

(***************************************************************************)
(* Agent: states, move generation, evaluation, minimax.                    *)
(***************************************************************************)

\* A wrong Agent.is_valid_move: the support is looked for above the cell,
\* so a piece would hang from the top of its column.
agent_is_valid_move_hanging(row, col, board_positions) ==
    IF row < 0 \/ col < 0 \/ row >= board_n_rows \/ col >= board_n_cols THEN FALSE
    ELSE IF at(board_positions, row, col) # 0 THEN FALSE
    ELSE IF row > 0 /\ at(board_positions, row - 1, col) = 0 THEN FALSE
    ELSE TRUE

\* Agent.is_valid_move (the agent's own copy, over board_n_rows x board_n_cols)
agent_is_valid_move(row, col, board_positions) ==
    IF row < 0 \/ col < 0 \/ row >= board_n_rows \/ col >= board_n_cols THEN FALSE
    ELSE IF at(board_positions, row, col) # 0 THEN FALSE
    ELSE IF row < (board_n_rows - 1) /\ at(board_positions, row + 1, col) = 0 THEN FALSE
    ELSE TRUE

\* A wrong State.__init__: the new state keeps the count of open positions of
\* the state it was made from.
State_keeps_count(current_player, prev_state, row, column) ==
    [positions |-> [prev_state.positions EXCEPT ![idx(row, column)] = current_player],
     move |-> <<row, column>>,
     n_pos_open |-> prev_state.n_pos_open]


\* State.__init__ with a prev_state: a copy of its positions with one piece
\* added, the move that made it, one position fewer
State(current_player, prev_state, row, column) ==
    [positions |-> [prev_state.positions EXCEPT ![idx(row, column)] = current_player],
     move |-> <<row, column>>,
     n_pos_open |-> prev_state.n_pos_open - 1]

\* State.set_state on the agent's current_state (which has no move attribute)
set_state(board, n_positions_open) ==
    [positions |-> board, move |-> <<-1, -1>>, n_pos_open |-> n_positions_open]

\* The (row, col) pairs in the order of gen_states' loops: rows outermost.
row_major ==
    [k \in 1..(board_n_rows * board_n_cols) |->
        <<(k - 1) \div board_n_cols, (k - 1) % board_n_cols>>] \o <<>>

\* Agent.gen_states: None (none = TRUE) when no position is open, else the
\* states of every valid move, rows outermost, columns innermost
gen_states(start_state, current_player) ==
    IF start_state.n_pos_open = 0
    THEN [none |-> TRUE, states |-> <<>>]
    ELSE LET valid == SelectSeq(row_major,
                          LAMBDA rc : agent_is_valid_move(rc[1], rc[2], start_state.positions))
         IN  [none |-> FALSE,
              states |-> [i \in 1..Len(valid) |->
                            State(current_player, start_state, valid[i][1], valid[i][2])] \o <<>>]

\* Agent.generate_tree, one level: the children treelib holds for a node at
\* the given depth whose state is parent_state, in creation order
children(parent_state, depth, current_player) ==
    IF depth = depth_limit THEN <<>>
    ELSE LET new_states == gen_states(parent_state, current_player)
         IN  IF new_states.none THEN <<>> ELSE new_states.states

\* A wrong next_player: the same player places at every depth.
next_player_same(current_player) == current_player

\* generate_tree: next_player
next_player(current_player) == IF current_player = 1 THEN 2 ELSE 1

\* The accumulators of evaluate: streaks_overall[p][k] is so[p][k + 1],
\* current_streak[p] is cs[p].
StreaksInit ==
    [so |-> <<[k \in 1..(agent_n_to_win + 1) |-> 0], [k \in 1..(agent_n_to_win + 1) |-> 0]>>,
     cs |-> <<0, 0>>]

\* lines 176-177 / 203-204: current_streak[p] = min(current_streak[p], n_to_win)
clamp(st, player, opponent) ==
    [st EXCEPT !.cs[player] = Min(@, agent_n_to_win),
               !.cs[opponent] = Min(@, agent_n_to_win)]

\* Agent.streak_accounting
streak_accounting(prev_piece, this_piece, player, opponent, st0) ==
    LET st == clamp(st0, player, opponent)
    IN  IF this_piece = 0
        THEN [so |-> [st.so EXCEPT ![player][st.cs[player] + 1] = @ + 1,
                                   ![opponent][st.cs[opponent] + 1] = @ + 1],
              cs |-> <<0, 0>>]
        ELSE IF this_piece = prev_piece
        THEN [st EXCEPT !.cs[this_piece] = @ + 1]
        ELSE IF prev_piece # 0
        THEN [so |-> [st.so EXCEPT ![prev_piece][st.cs[prev_piece] + 1] = @ + 1],
              cs |-> [[st.cs EXCEPT ![prev_piece] = 0] EXCEPT ![this_piece] = @ + 1]]
        ELSE [st EXCEPT !.cs[this_piece] = @ + 1]

\* Agent.streak_cleanup
streak_cleanup(player, opponent, st0) ==
    LET st == clamp(st0, player, opponent)
    IN  [so |-> [st.so EXCEPT ![player][st.cs[player] + 1] = @ + 1,
                              ![opponent][st.cs[opponent] + 1] = @ + 1],
         cs |-> <<0, 0>>]

\* The cells a diagonal pass of evaluate visits after its first cell:
\* while r < board_n_rows and c < board_n_cols: r += 1, c += 1
RECURSIVE walk_down_right(_, _)
walk_down_right(r, c) ==
    IF r < board_n_rows /\ c < board_n_cols
    THEN <<idx(r, c)>> \o walk_down_right(r + 1, c + 1)
    ELSE <<>>

\* while r < board_n_rows and c > 0: r += 1, c -= 1
RECURSIVE walk_down_left(_, _)
walk_down_left(r, c) ==
    IF r < board_n_rows /\ c > 0
    THEN <<idx(r, c)>> \o walk_down_left(r + 1, c - 1)
    ELSE <<>>

\* The lines evaluate scans, in its order; each line is the flat positions of
\* its cells, first cell first.
horizontal_lines ==
    [i \in 1..board_n_rows |-> [j \in 1..board_n_cols |-> idx(i - 1, j - 1)]]

vertical_lines ==
    [j \in 1..board_n_cols |-> [i \in 1..board_n_rows |-> idx(i - 1, j - 1)]]

\* for row in range(board_n_rows - 2, -1, -1): from (row, 0) down-right
top_down_left_lines ==
    LET rows == range_down(board_n_rows - 2, -1)
    IN  [i \in 1..Len(rows) |-> <<idx(rows[i], 0)>> \o walk_down_right(rows[i] + 1, 1)]

\* for col in range(1, board_n_cols - 2): from (0, col) down-right
top_down_top_lines ==
    LET cols == range(1, board_n_cols - 2)
    IN  [i \in 1..Len(cols) |-> <<idx(0, cols[i])>> \o walk_down_right(1, cols[i] + 1)]

\* for row in range(board_n_rows - 2, -1, -1): from (row, board_n_cols - 1) down-left
bottom_up_right_lines ==
    LET rows == range_down(board_n_rows - 2, -1)
    IN  [i \in 1..Len(rows) |->
            <<idx(rows[i], board_n_cols - 1)>> \o walk_down_left(rows[i] + 1, board_n_cols - 2)]

\* for col in range(board_n_cols - 2, 0, -1): from (0, col) down-left
bottom_up_top_lines ==
    LET cols == range_down(board_n_cols - 2, 0)
    IN  [i \in 1..Len(cols) |-> <<idx(0, cols[i])>> \o walk_down_left(1, cols[i] - 1)]

eval_lines ==
    horizontal_lines \o vertical_lines \o top_down_left_lines \o top_down_top_lines
        \o bottom_up_right_lines \o bottom_up_top_lines

\* One line of evaluate after its first cell: every later cell goes through
\* streak_accounting, streak_cleanup closes the line.
RECURSIVE scan_line(_, _, _, _, _, _, _)
scan_line(board, line, i, prev_piece, player, opponent, st) ==
    IF i > Len(line) THEN streak_cleanup(player, opponent, st)
    ELSE LET this_piece == board[line[i]]
         IN  scan_line(board, line, i + 1, this_piece, player, opponent,
                       streak_accounting(prev_piece, this_piece, player, opponent, st))

\* What one line adds to streaks_overall. streak_cleanup leaves current_streak
\* at 0 for both players, so every line starts from current_streak = {1: 0, 2: 0};
\* a first cell that holds a piece starts a streak of 1.
line_streaks(board, line, player, opponent) ==
    LET prev_piece == board[line[1]]
        st1 == IF prev_piece # 0
               THEN [StreaksInit EXCEPT !.cs[prev_piece] = @ + 1]
               ELSE StreaksInit
    IN  scan_line(board, line, 2, prev_piece, player, opponent, st1).so

\* streaks_overall after the lines lo..hi of evaluate: the counters only ever
\* increase, so the total is the sum of what each line adds.
RECURSIVE scan_lines(_, _, _, _, _)
scan_lines(board, lo, hi, player, opponent) ==
    IF lo = hi THEN line_streaks(board, eval_lines[lo], player, opponent)
    ELSE LET mid == (lo + hi) \div 2
             a == scan_lines(board, lo, mid, player, opponent)
             b == scan_lines(board, mid + 1, hi, player, opponent)
         IN  <<[k \in 1..(agent_n_to_win + 1) |-> a[1][k] + b[1][k]] \o <<>>,
               [k \in 1..(agent_n_to_win + 1) |-> a[2][k] + b[2][k]] \o <<>> >>

\* Agent.evaluate
evaluate(board, player) ==
    LET opponent == IF player = 1 THEN 2 ELSE 1
        streaks_overall == scan_lines(board, 1, Len(eval_lines), player, opponent)
        score_player == 5 * streaks_overall[player][3] + 25 * streaks_overall[player][4]
                        + 125 * streaks_overall[player][5]
        score_opponent == 5 * streaks_overall[opponent][3] + 50 * streaks_overall[opponent][4]
                          + 200 * streaks_overall[opponent][5]
    IN  score_player - score_opponent

\* children_vals.index(v): 0-based position of the first element equal to v
index_of(vals, v) ==
    (CHOOSE i \in 1..Len(vals) : vals[i] = v /\ \A j \in 1..(i - 1) : vals[j] # v) - 1

\* min(children_vals), max(children_vals)
seq_min(vals) == CHOOSE v \in {vals[i] : i \in 1..Len(vals)} : \A i \in 1..Len(vals) : v <= vals[i]

seq_max(vals) == CHOOSE v \in {vals[i] : i \in 1..Len(vals)} : \A i \in 1..Len(vals) : v >= vals[i]

\* A wrong choice of the child: a min node takes the maximum and a max node
\* the minimum.
choose_child_swapped(is_min_node, children_vals) ==
    IF is_min_node
    THEN <<seq_max(children_vals), index_of(children_vals, seq_max(children_vals))>>
    ELSE <<seq_min(children_vals), index_of(children_vals, seq_min(children_vals))>>

\* lines 378-385: the value and the index of the child a node chooses
choose_child(is_min_node, children_vals) ==
    IF is_min_node
    THEN <<seq_min(children_vals), index_of(children_vals, seq_min(children_vals))>>
    ELSE <<seq_max(children_vals), index_of(children_vals, seq_max(children_vals))>>

\* Agent.minimax on the node of the tree at the given depth that holds state,
\* when current_player is the player generate_tree places below it and player
\* is self.player. Returns <<value, index of the chosen child>>; a leaf
\* returns the index -1.
RECURSIVE minimax(_, _, _, _)
RECURSIVE minimax_node(_, _, _, _, _)
minimax(state, depth, current_player, player) ==
    minimax_node(state, depth, current_player, player,
                 children(state, depth, current_player))

\* minimax once the children of the node (kids) are known
minimax_node(state, depth, current_player, player, kids) ==
    IF Len(kids) = 0
    THEN <<evaluate(state.positions, player), -1>>
    ELSE choose_child(depth % 2 = 1,
             [i \in 1..Len(kids) |->
                 minimax(kids[i], depth + 1, next_player(current_player), player)[1]]
             \o <<>>)

\* Agent.ai_move for the agent self.player = player: raised = TRUE is the
\* IndexError of root_children[child] on an empty list of children.
ai_move(board_state, n_pos_open, player) ==
    LET current_state == set_state(board_state, n_pos_open)
        root_children == children(current_state, 0, player)
        child == minimax(current_state, 0, player, player)[2]
        i == IF child < 0 THEN child + Len(root_children) ELSE child
    IN  IF i < 0 \/ i >= Len(root_children)
        THEN [raised |-> TRUE, move |-> <<-1, -1>>]
        ELSE [raised |-> FALSE, move |-> root_children[i + 1].move]

(***************************************************************************)
(* Connect4.play(): the turn loop.                                         *)
(*                                                                         *)
(* A full search from an almost empty board is far beyond what can be      *)
(* enumerated, so the games explored here are picked up late: each game of *)
(* Games is a recorded game of play() (the columns of its placements, in   *)
(* order) for one ai_agent setting, with the human's clicks as listed and  *)
(* the agent's placements as ai_move returned them. The model starts from  *)
(* the position such a game has when Remaining cells are still empty, and  *)
(* from there follows every click and every agent reply to the end.  With  *)
(* ai_agent = 0 every position of every recorded game is one two humans    *)
(* can reach as well.                                                      *)
(***************************************************************************)

\* Number of empty cells of the positions the exploration starts from.
Remaining == 6

\* Largest number of events one call of pygame.event.get() returns.
MaxBatch == 2

Games ==
    { [ai_agent |-> 1,
       moves |-> <<1, 6, 1, 3, 1, 1, 2, 0, 2, 2, 3, 0, 0, 3, 0, 6, 0, 0, 4, 4, 1,
                   3, 2, 5, 4, 2, 5, 5, 3, 5, 4, 3, 4, 6, 6, 4, 5, 2, 1, 6, 5, 6>>],
      [ai_agent |-> 2,
       moves |-> <<3, 2, 5, 4, 3, 3, 3, 2, 2, 4, 2, 2, 3, 3, 5, 0, 6, 4, 4, 5, 2,
                   5, 4, 4, 5, 5, 0, 6, 6, 0, 0, 6, 1, 1, 0, 6, 6, 0, 1>>],
      [ai_agent |-> 2,
       moves |-> <<1, 0, 2, 3, 0, 3, 5, 3, 3, 1, 3, 1, 1, 0, 0, 2, 2, 2, 0, 4, 4,
                   4, 4, 5, 2, 1, 0, 5, 2, 5, 5, 4, 4, 3, 1, 6, 5, 6, 6, 6, 6, 6>>],
      [ai_agent |-> 3,
       moves |-> <<1, 0, 1, 1, 2, 1, 1, 2, 3, 4, 3, 3, 2, 3, 3, 4, 2, 2, 4, 4, 5,
                   5, 3, 1, 4, 4, 0, 0, 2, 0, 0, 6, 6, 6, 6, 0, 6, 6, 5, 5, 5>>] }

\* A piece of player dropped in a column that is not full.
Drop(b, column, p) == execute_move(b, get_row(b, column), column, p)

\* The board after the first k placements of a game: player 1 places first,
\* the players alternate, every piece drops to get_row of its column.
RECURSIVE Replay(_, _)
Replay(moves, k) ==
    IF k = 0 THEN EmptyBoard
    ELSE Drop(Replay(moves, k - 1), moves[k], IF k % 2 = 1 THEN 1 ELSE 2)

VARIABLES
    board,                  \* self.board
    n_positions_remaining,  \* self.n_positions_remaining
    ai_agent,               \* self.ai_agent
    shape,                  \* self.n_rows, self.n_cols, self.n_to_win
    player,                 \* play(): player
    running,                \* play(): running
    pc,                     \* where play() is: "while" (line 259), "events"
                            \* (the for loop of line 271 and what follows it),
                            \* "done" (line 352), "exited" (sys.exit()),
                            \* "raised" (an exception left play())
    pending,                \* events of the current batch not yet handled
    banner,                 \* the text play() rendered last, "" before any
    last,                   \* history: the last call that read or changed
                            \* the board, with the state it was made in
    mem                     \* the objects of an agent's search (arrays, State
                            \* objects, pending generate_tree calls); play()
                            \* and the search taken as a whole leave it empty

vars == <<board, n_positions_remaining, ai_agent, shape, player, running, pc, pending,
          banner, last, mem>>

\* Connect4(): the default arguments of the constructor
DefaultShape == [n_rows |-> n_rows, n_cols |-> n_cols, n_to_win |-> n_to_win]

\* No object of a search.
NoMem == [arrays |-> <<>>, nodes |-> <<>>, todo |-> <<>>]

\* The history record of a call made in the current state.
Call(op, row, column) ==
    [op |-> op, row |-> row, column |-> column, player |-> player,
     board |-> board, n_positions_remaining |-> n_positions_remaining,
     running |-> running]

Init ==
    \E g \in Games : \E a \in {0, g.ai_agent} :
        LET placed == n_rows * n_cols - Remaining IN
        /\ ai_agent = a
        /\ board = Replay(g.moves, placed)
        /\ n_positions_remaining = Remaining
        /\ player = (IF placed % 2 = 0 THEN 1 ELSE 2)
        /\ running = TRUE
        /\ banner = ""
        /\ shape = DefaultShape
        /\ mem = NoMem
        /\ last = [op |-> "start", row |-> -1, column |-> -1, player |-> 0,
                   board |-> EmptyBoard, n_positions_remaining |-> 0,
                   running |-> TRUE]
        \* play() lets its only agent answer in the iteration of the human's
        \* click: when that agent is to move, play() is past the click, inside
        \* the for loop; otherwise it is at the top of the while loop.
        /\ IF a \in {1, 2} /\ a = (IF placed % 2 = 0 THEN 1 ELSE 2)
           THEN pc = "events" /\ pending \in 0..(MaxBatch - 1)
           ELSE pc = "while" /\ pending = 0

\* line 259, running = False: the loop ends
LoopExit ==
    /\ pc = "while" /\ ~running
    /\ pc' = "done"
    /\ UNCHANGED <<board, n_positions_remaining, ai_agent, shape, player, running, pending,
                   banner, last, mem>>

\* lines 260-264: no position left, draw banner, break
Draw ==
    /\ pc = "while" /\ running /\ n_positions_remaining = 0
    /\ banner' = "Draw - No Winners Here"
    /\ pc' = "done"
    /\ UNCHANGED <<board, n_positions_remaining, ai_agent, shape, player, running, pending, last,
                   mem>>

\* line 271: pygame.event.get() returns the events queued since the last call
GetEvents ==
    /\ pc = "while" /\ running /\ n_positions_remaining # 0
    /\ \E n \in 0..MaxBatch : pending' = n
    /\ pc' = "events"
    /\ UNCHANGED <<board, n_positions_remaining, ai_agent, shape, player, running, banner, last,
                   mem>>

\* lines 272-273: pygame.QUIT
Quit ==
    /\ pc = "events" /\ pending > 0
    /\ pc' = "exited"
    /\ UNCHANGED <<board, n_positions_remaining, ai_agent, shape, player, running, pending,
                   banner, last, mem>>

\* lines 275-281: pygame.MOUSEMOTION (or an event play() has no branch for):
\* only the banner area is redrawn
MouseMotion ==
    /\ pc = "events" /\ pending > 0
    /\ pending' = pending - 1
    /\ UNCHANGED <<board, n_positions_remaining, ai_agent, shape, player, running, pc,
                   banner, last, mem>>

\* lines 306 / 341 and 308-312 / 343-346: after a placement at (row, column)
\* on board b: a winning move stops the loop, any other swaps the players
AfterMove(b, row, column, text) ==
    IF is_winning_move(b, row, column, player)
    THEN /\ banner' = text
         /\ running' = FALSE
         /\ player' = player
    ELSE /\ player' = (IF player = 1 THEN 2 ELSE 1)
         /\ UNCHANGED <<banner, running>>

\* lines 283-315, no human to move: the click is ignored
ClickIgnored ==
    /\ pc = "events" /\ pending > 0
    /\ ~(ai_agent # 3 /\ player # ai_agent)
    /\ pending' = pending - 1
    /\ UNCHANGED <<board, n_positions_remaining, ai_agent, shape, player, running, pc,
                   banner, last, mem>>

\* A wrong full-column branch: the click costs the player the turn.
ClickFull_loses_turn(column) ==
    /\ pc = "events" /\ pending > 0
    /\ ai_agent # 3 /\ player # ai_agent
    /\ get_row(board, column) = -1
    /\ pending' = 0
    /\ last' = Call("full", -1, column)
    /\ player' = (IF player = 1 THEN 2 ELSE 1)
    /\ UNCHANGED <<board, n_positions_remaining, ai_agent, shape, running, pc, banner, mem>>

\* lines 283-293: the human clicks on a column get_row reports full: break
ClickFull(column) ==
    /\ pc = "events" /\ pending > 0
    /\ ai_agent # 3 /\ player # ai_agent
    /\ get_row(board, column) = -1
    /\ pending' = 0
    /\ last' = Call("full", -1, column)
    /\ UNCHANGED <<board, n_positions_remaining, ai_agent, shape, player, running, pc, banner,
                   mem>>

\* A wrong placement: the piece is put on the board but not counted.
HumanMove_not_counted(row, column) ==
    /\ board' = execute_move(board, row, column, player)
    /\ n_positions_remaining' = n_positions_remaining
    /\ last' = Call("execute_move", row, column)
    /\ AfterMove(execute_move(board, row, column, player), row, column,
                 IF ai_agent # 0 THEN "Down with the machines!"
                 ELSE "Player is the winner!")

\* lines 294-315: the human's piece goes to (row, column)
HumanMove(row, column) ==
    /\ board' = execute_move(board, row, column, player)
    /\ n_positions_remaining' = n_positions_remaining - 1
    /\ last' = Call("execute_move", row, column)
    /\ AfterMove(execute_move(board, row, column, player), row, column,
                 IF ai_agent # 0 THEN "Down with the machines!"
                 ELSE "Player is the winner!")

\* lines 283-315: the human clicks on a column with an open row
ClickMove(column) ==
    /\ pc = "events" /\ pending > 0
    /\ ai_agent # 3 /\ player # ai_agent
    /\ get_row(board, column) # -1
    /\ HumanMove(get_row(board, column), column)
    /\ pending' = pending - 1
    /\ UNCHANGED <<ai_agent, shape, pc, mem>>

\* lines 327-349: the agent's piece goes to r_c
AgentMove(r_c) ==
    /\ board' = execute_move(board, r_c[1], r_c[2], player)
    /\ n_positions_remaining' = n_positions_remaining - 1
    /\ last' = Call("ai_move", r_c[1], r_c[2])
    /\ AfterMove(execute_move(board, r_c[1], r_c[2], player), r_c[1], r_c[2],
                 IF ai_agent # 3 THEN "The machines have risen!"
                 ELSE "Agent is the winner!")
    /\ pc' = "while"
    /\ UNCHANGED <<ai_agent, shape, pending, mem>>

\* lines 322-326: ai_move raises, the exception leaves play()
AgentRaise ==
    /\ last' = Call("raise", -1, -1)
    /\ pc' = "raised"
    /\ UNCHANGED <<board, n_positions_remaining, ai_agent, shape, player, running, pending, banner,
                   mem>>

\* lines 318-349, after the for loop: the agent whose turn it is (agent1 or
\* agent2 when both play, else ai_opponent) is asked for its move
AgentTurn ==
    /\ pc = "events" /\ pending = 0
    /\ ai_agent = 3 \/ ai_agent = player
    /\ \E answer \in {ai_move(board, n_positions_remaining, player)} :
          \/ answer.raised /\ AgentRaise
          \/ ~answer.raised /\ AgentMove(answer.move)

\* line 318 false: no agent is to move
NoAgent ==
    /\ pc = "events" /\ pending = 0
    /\ ~(ai_agent = 3 \/ ai_agent = player)
    /\ pc' = "while"
    /\ UNCHANGED <<board, n_positions_remaining, ai_agent, shape, player, running, pending,
                   banner, last, mem>>

Next ==
    \/ LoopExit
    \/ Draw
    \/ GetEvents
    \/ Quit
    \/ MouseMotion
    \/ ClickIgnored
    \/ \E column \in 0..(n_cols - 1) : ClickFull(column)
    \/ \E column \in 0..(n_cols - 1) : ClickMove(column)
    \/ AgentTurn
    \/ NoAgent

Spec == Init /\ [][Next]_vars

(***************************************************************************)
(* Agent.ai_move on its own: an agent is asked for its move on a board of  *)
(* the caller's, without play() around it. The boards are the empty board  *)
(* (for the agent of player 1) and, for either agent, every board that     *)
(* comes from a recorded game with Remaining empty cells by dropping       *)
(* further pieces, the colours alternating.                                *)
(***************************************************************************)

\* The number of empty cells of a board.
n_open(b) == Cardinality({i \in DOMAIN b : b[i] = 0})

InitSearch ==
    /\ \/ board = EmptyBoard /\ player = 1
       \/ /\ \E g \in Games : board = Replay(g.moves, n_rows * n_cols - Remaining)
          /\ player \in {1, 2}
    /\ n_positions_remaining = n_open(board)
    /\ ai_agent = player
    /\ running = TRUE
    /\ pc = "ask"
    /\ pending = 0
    /\ banner = ""
    /\ shape = DefaultShape
    /\ mem = NoMem
    /\ last = [op |-> "start", row |-> -1, column |-> -1, player |-> 0,
               board |-> EmptyBoard, n_positions_remaining |-> 0,
               running |-> TRUE]

\* get_row and execute_move by the caller: one more piece on the board, of
\* the colour whose turn it is by the count of pieces
DropPiece(column) ==
    /\ pc = "ask"
    /\ n_positions_remaining <= Remaining
    /\ get_row(board, column) # -1
    /\ board' = Drop(board, column,
                     IF (n_rows * n_cols - n_positions_remaining) % 2 = 0 THEN 1 ELSE 2)
    /\ n_positions_remaining' = n_positions_remaining - 1
    /\ UNCHANGED <<ai_agent, shape, player, running, pc, pending, banner, last, mem>>

\* Agent(player).ai_move(board, n_positions_remaining): the answer (or the
\* exception) is recorded, the caller's board is not touched
Ask ==
    /\ pc = "ask"
    /\ \E answer \in {ai_move(board, n_positions_remaining, player)} :
          last' = Call(IF answer.raised THEN "raise" ELSE "ai_move",
                       answer.move[1], answer.move[2])
    /\ pc' = "answered"
    /\ UNCHANGED <<board, n_positions_remaining, ai_agent, shape, player, running, pending, banner,
                   mem>>

NextSearch ==
    \/ \E column \in 0..(n_cols - 1) : DropPiece(column)
    \/ Ask

SpecSearch == InitSearch /\ [][NextSearch]_vars

(***************************************************************************)
(* Agent.ai_move step by step, with the numpy arrays as objects.  mem.arrays*)
(* is the heap of arrays: a reference is a position in it, and reference 1 *)
(* is the game's self.board, whose cells the variable board shows.         *)
(* mem.nodes are the nodes of the treelib tree in creation order, each     *)
(* with its State object (positions is a reference), its parent and its    *)
(* depth; mem.todo is the stack of generate_tree calls still to run.  The  *)
(* boards are the positions the recorded games have up to HeapBack         *)
(* placements before their end, small enough for the whole tree to be held.*)
(***************************************************************************)

\* How many placements before its end a recorded game is picked up at most.
HeapBack == 3

\* An assignment of the reference itself, where the code copies.
np_copy_alias(arrays, ref) == [arrays |-> arrays, ref |-> ref]

\* np.copy(a): a new array with the cells of a
np_copy(arrays, ref) ==
    [arrays |-> Append(arrays, arrays[ref]), ref |-> Len(arrays) + 1]

\* State.set_state on objects: self.positions = np.copy(board)
set_state_obj(arrays, board_ref, n_positions_open) ==
    LET copy == np_copy(arrays, board_ref)
    IN  [arrays |-> copy.arrays,
         state |-> [positions |-> copy.ref, move |-> <<-1, -1>>,
                    n_pos_open |-> n_positions_open]]

\* State.__init__ with a prev_state on objects: the copy, then the write
\* through the new state's reference
State_obj(arrays, current_player, prev_state, row, column) ==
    LET copy == np_copy(arrays, prev_state.positions)
    IN  [arrays |-> [copy.arrays EXCEPT ![copy.ref][idx(row, column)] = current_player],
         state |-> [positions |-> copy.ref, move |-> <<row, column>>,
                    n_pos_open |-> prev_state.n_pos_open - 1]]

\* Agent.gen_states on objects, from the k-th (row, col) of its loops on:
\* every test reads the array start_state refers to as it is by then
RECURSIVE gen_states_obj(_, _, _, _, _)
gen_states_obj(arrays, start_state, current_player, k, possible_states) ==
    IF k > Len(row_major) THEN [arrays |-> arrays, states |-> possible_states]
    ELSE IF agent_is_valid_move(row_major[k][1], row_major[k][2],
                                arrays[start_state.positions])
    THEN LET made == State_obj(arrays, current_player, start_state,
                               row_major[k][1], row_major[k][2])
         IN  gen_states_obj(made.arrays, start_state, current_player, k + 1,
                            Append(possible_states, made.state))
    ELSE gen_states_obj(arrays, start_state, current_player, k + 1, possible_states)

InitHeap ==
    /\ \E g \in Games : \E k \in 1..HeapBack :
          /\ k <= Len(g.moves)
          /\ board = Replay(g.moves, Len(g.moves) - k)
    /\ n_positions_remaining = n_open(board)
    /\ player \in {1, 2}
    /\ ai_agent = player
    /\ running = TRUE
    /\ pc = "call"
    /\ pending = 0
    /\ banner = ""
    /\ shape = DefaultShape
    /\ mem = [arrays |-> <<board>>, nodes |-> <<>>, todo |-> <<>>]
    /\ last = [op |-> "start", row |-> -1, column |-> -1, player |-> 0,
               board |-> EmptyBoard, n_positions_remaining |-> 0,
               running |-> TRUE]

\* ai_move, lines 390-399: set_agent_state copies the board into
\* current_state, the root node holds current_state, generate_tree is called
\* on it for self.player
SetAgentState ==
    /\ pc = "call"
    /\ \E made \in {set_state_obj(mem.arrays, 1, n_positions_remaining)} :
          /\ mem' = [arrays |-> made.arrays,
                     nodes |-> <<[state |-> made.state, parent |-> 0, depth |-> 0]>>,
                     todo |-> <<[node |-> 1, current_player |-> player]>>]
          /\ board' = made.arrays[1]
    /\ last' = Call("ai_move", -1, -1)
    /\ pc' = "tree"
    /\ UNCHANGED <<n_positions_remaining, ai_agent, shape, player, running, pending, banner>>

\* A wrong generate_tree: the depth of the parent is not looked at.
GenerateTree_no_depth_check ==
    /\ pc = "tree" /\ mem.todo # <<>>
    /\ LET call == Head(mem.todo)
           parent_node == mem.nodes[call.node]
       IN  IF parent_node.state.n_pos_open = 0
           THEN /\ mem' = [mem EXCEPT !.todo = Tail(@)]
                /\ board' = board
           ELSE \E made \in {gen_states_obj(mem.arrays, parent_node.state,
                                            call.current_player, 1, <<>>)} :
                   /\ mem' = [arrays |-> made.arrays,
                              nodes |-> mem.nodes \o
                                  [i \in 1..Len(made.states) |->
                                      [state |-> made.states[i], parent |-> call.node,
                                       depth |-> parent_node.depth + 1]],
                              todo |-> [i \in 1..Len(made.states) |->
                                          [node |-> Len(mem.nodes) + i,
                                           current_player |-> next_player(call.current_player)]]
                                       \o Tail(mem.todo)]
                   /\ board' = made.arrays[1]
    /\ UNCHANGED <<n_positions_remaining, ai_agent, shape, player, running, pc, pending,
                   banner, last>>

\* One call of generate_tree: nothing at depth_limit or when gen_states
\* returns None, else a node for every new state and a call for every node
GenerateTree ==
    /\ pc = "tree" /\ mem.todo # <<>>
    /\ LET call == Head(mem.todo)
           parent_node == mem.nodes[call.node]
       IN  IF parent_node.depth = depth_limit \/ parent_node.state.n_pos_open = 0
           THEN /\ mem' = [mem EXCEPT !.todo = Tail(@)]
                /\ board' = board
           ELSE \E made \in {gen_states_obj(mem.arrays, parent_node.state,
                                            call.current_player, 1, <<>>)} :
                   /\ mem' = [arrays |-> made.arrays,
                              nodes |-> mem.nodes \o
                                  [i \in 1..Len(made.states) |->
                                      [state |-> made.states[i], parent |-> call.node,
                                       depth |-> parent_node.depth + 1]],
                              todo |-> [i \in 1..Len(made.states) |->
                                          [node |-> Len(mem.nodes) + i,
                                           current_player |-> next_player(call.current_player)]]
                                       \o Tail(mem.todo)]
                   /\ board' = made.arrays[1]
    /\ UNCHANGED <<n_positions_remaining, ai_agent, shape, player, running, pc, pending,
                   banner, last>>

\* ai_move, lines 400-403: minimax only reads the tree; the move is returned
Return ==
    /\ pc = "tree" /\ mem.todo = <<>>
    /\ pc' = "returned"
    /\ UNCHANGED <<board, n_positions_remaining, ai_agent, shape, player, running, pending,
                   banner, last, mem>>

NextHeap ==
    \/ SetAgentState
    \/ GenerateTree
    \/ Return

SpecHeap == InitHeap /\ [][NextHeap]_vars

\* ai_move runs in one thread with nothing to wait for: a step that can be
\* taken is taken
SpecHeapFair == SpecHeap /\ WF_vars(NextHeap)

(***************************************************************************)
(* Connect4(n_rows, n_cols, n_to_win) constructed with other arguments     *)
(* than the defaults.  The board is the numpy array of shape.n_rows rows   *)
(* and shape.n_cols columns, flat in row-major order as before.  An index  *)
(* i on an axis of length n is in range when -n <= i < n, a negative one   *)
(* counting from the end; any other raises IndexError.  The positions are  *)
(* those a short opening leads to, by dropping up to MaxDrops more pieces, *)
(* the colours alternating.                                                *)
(***************************************************************************)

\* free drops after the opening
MaxDrops == 3

Shapes ==
    { [n_rows |-> 3, n_cols |-> 3, n_to_win |-> 3],
      [n_rows |-> 4, n_cols |-> 4, n_to_win |-> 3],
      [n_rows |-> 4, n_cols |-> 4, n_to_win |-> 4],
      [n_rows |-> 5, n_cols |-> 5, n_to_win |-> 5] }

\* The columns of the placements made before the positions looked at.
Opening(s) ==
    IF s.n_to_win = 5 THEN <<3, 0, 1, 3, 3, 1, 2, 3, 2>> ELSE <<>>

\* numpy: is board[row, col] inside the array
in_range(s, row, col) ==
    /\ -s.n_rows <= row /\ row < s.n_rows
    /\ -s.n_cols <= col /\ col < s.n_cols

\* numpy: board[row, col], for indices in range
item(s, b, row, col) ==
    b[(IF row < 0 THEN s.n_rows + row ELSE row) * s.n_cols
      + (IF col < 0 THEN s.n_cols + col ELSE col) + 1]

\* Connect4.is_valid_move of a game of shape s
is_valid_move_on(s, b, row, col) ==
    IF row < 0 \/ col < 0 \/ row >= s.n_rows \/ col >= s.n_cols THEN FALSE
    ELSE IF item(s, b, row, col) # 0 THEN FALSE
    ELSE IF row < (s.n_rows - 1) /\ item(s, b, row + 1, col) = 0 THEN FALSE
    ELSE TRUE

\* Connect4.get_row of a game of shape s
RECURSIVE get_row_on_from(_, _, _, _)
get_row_on_from(s, b, column, row) ==
    IF row < 0 THEN -1
    ELSE IF is_valid_move_on(s, b, row, column) THEN row
    ELSE get_row_on_from(s, b, column, row - 1)

get_row_on(s, b, column) == get_row_on_from(s, b, column, s.n_rows - 1)

\* Connect4.execute_move of a game of shape s: the array after
\* board[row, column] = player
execute_move_on(s, b, row, column, p) ==
    [b EXCEPT ![row * s.n_cols + column + 1] = p]

DropOn(s, b, column, p) == execute_move_on(s, b, get_row_on(s, b, column), column, p)

RECURSIVE ReplayOn(_, _, _)
ReplayOn(s, moves, k) ==
    IF k = 0 THEN [i \in 1..(s.n_rows * s.n_cols) |-> 0]
    ELSE DropOn(s, ReplayOn(s, moves, k - 1), moves[k], IF k % 2 = 1 THEN 1 ELSE 2)

\* The chained comparison  a == b == c == d == player  of is_diagonal_win:
\* the operands are read left to right and only as far as the comparisons
\* hold; cells are the <<row, col>> of a, b, c, d, prev the value read last.
\* "True" / "False" is the value of the chain, "IndexError" a read outside
\* the array.
RECURSIVE chain(_, _, _, _, _, _)
chain(s, b, cells, i, prev, p) ==
    IF i > Len(cells) THEN (IF prev = p THEN "True" ELSE "False")
    ELSE IF ~in_range(s, cells[i][1], cells[i][2]) THEN "IndexError"
    ELSE IF i > 1 /\ item(s, b, cells[i][1], cells[i][2]) # prev THEN "False"
    ELSE chain(s, b, cells, i + 1, item(s, b, cells[i][1], cells[i][2]), p)

\* The anchors of is_diagonal_win in the order its loops visit them, each
\* with the four cells its condition names: the top down loops of lines
\* 138-142, then the bottom up loops of lines 145-149.
diagonal_anchors(s) ==
    LET columns == range(0, s.n_cols - s.n_to_win + 1)
        top     == range(0, s.n_rows - s.n_to_win + 1)
        bottom  == range(s.n_rows - s.n_to_win + 1, s.n_rows)
    IN  [k \in 1..(Len(columns) * Len(top)) |->
            LET column == columns[((k - 1) \div Len(top)) + 1]
                row    == top[((k - 1) % Len(top)) + 1]
            IN  <<<<row, column>>, <<row + 1, column + 1>>,
                  <<row + 2, column + 2>>, <<row + 3, column + 3>>>>]
        \o
        [k \in 1..(Len(columns) * Len(bottom)) |->
            LET column == columns[((k - 1) \div Len(bottom)) + 1]
                row    == bottom[((k - 1) % Len(bottom)) + 1]
            IN  <<<<row, column>>, <<row - 1, column + 1>>,
                  <<row - 2, column + 2>>, <<row - 3, column + 3>>>>]

\* Connect4.is_diagonal_win of a game of shape s: the first anchor whose
\* condition is true returns True, the first read outside the array raises,
\* and False is returned when the loops end
RECURSIVE is_diagonal_win_from(_, _, _, _, _)
is_diagonal_win_from(s, b, p, anchors, k) ==
    IF k > Len(anchors) THEN "False"
    ELSE LET here == chain(s, b, anchors[k], 1, 0, p)
         IN  IF here = "False" THEN is_diagonal_win_from(s, b, p, anchors, k + 1)
             ELSE here

is_diagonal_win_on(s, b, p) == is_diagonal_win_from(s, b, p, diagonal_anchors(s), 1)

\* Agent(ai_player), as play() constructs its agents (lines 246-250): the
\* other arguments of Agent.__init__ take their defaults
Agent(ai_player) ==
    [player |-> ai_player, board_n_rows |-> board_n_rows,
     board_n_cols |-> board_n_cols, n_to_win |-> agent_n_to_win]

\* Agent.is_valid_move of agent on an array of shape s: "True", "False", or
\* "IndexError" for a read outside the array
agent_is_valid_move_on(agent, s, row, col, board_positions) ==
    IF row < 0 \/ col < 0 \/ row >= agent.board_n_rows \/ col >= agent.board_n_cols
    THEN "False"
    ELSE IF ~in_range(s, row, col) THEN "IndexError"
    ELSE IF item(s, board_positions, row, col) # 0 THEN "False"
    ELSE IF row < (agent.board_n_rows - 1)
         THEN IF ~in_range(s, row + 1, col) THEN "IndexError"
              ELSE IF item(s, board_positions, row + 1, col) = 0 THEN "False"
              ELSE "True"
    ELSE "True"

\* Agent.gen_states of agent on an array of shape s raises IndexError: some
\* cell of the agent's loops makes is_valid_move read outside the array
gen_states_raises(agent, s, board_positions, n_pos_open) ==
    /\ n_pos_open # 0
    /\ \E row \in 0..(agent.board_n_rows - 1), col \in 0..(agent.board_n_cols - 1) :
          agent_is_valid_move_on(agent, s, row, col, board_positions) = "IndexError"

\* Agent.ai_move of agent on the array of a game of shape s, for the arrays
\* that are not larger than the agent's board on both axes: the move, or
\* "IndexError".  On an array of the agent's own shape this is ai_move; on a
\* smaller one either gen_states raises at the root or, with n_pos_open = 0,
\* the root is a leaf and the loops of evaluate (lines 244-247, over the
\* agent's rows and columns) read outside the array.
ai_move_on(agent, s, board_state, n_pos_open) ==
    IF s.n_rows = agent.board_n_rows /\ s.n_cols = agent.board_n_cols
    THEN LET answer == ai_move(board_state, n_pos_open, agent.player)
         IN  IF answer.raised THEN "IndexError" ELSE answer.move
    ELSE IF n_pos_open = 0 \/ gen_states_raises(agent, s, board_state, n_pos_open)
    THEN "IndexError"
    ELSE "not modelled"

InitShapes ==
    /\ shape \in Shapes
    /\ board = ReplayOn(shape, Opening(shape), Len(Opening(shape)))
    /\ n_positions_remaining = shape.n_rows * shape.n_cols - Len(Opening(shape))
    /\ player \in {1, 2}
    /\ ai_agent = player
    /\ running = TRUE
    /\ pc = "ask"
    /\ pending = 0
    /\ banner = ""
    /\ mem = NoMem
    /\ last = [op |-> "start", row |-> -1, column |-> -1, player |-> 0,
               board |-> <<>>, n_positions_remaining |-> 0, running |-> TRUE]

\* get_row and execute_move by the caller: one more piece on the board, of
\* the colour whose turn it is by the count of pieces
DropShape(column) ==
    /\ pc = "ask"
    /\ shape.n_rows * shape.n_cols - n_positions_remaining
          < Len(Opening(shape)) + MaxDrops
    /\ get_row_on(shape, board, column) # -1
    /\ board' = DropOn(shape, board, column,
                       IF (shape.n_rows * shape.n_cols - n_positions_remaining) % 2 = 0
                       THEN 1 ELSE 2)
    /\ n_positions_remaining' = n_positions_remaining - 1
    /\ UNCHANGED <<ai_agent, shape, player, running, pc, pending, banner, last, mem>>

\* self.is_diagonal_win(player) on the board as it is; the outcome is
\* recorded
DiagonalCheck ==
    /\ pc = "ask"
    /\ last' = [op |-> "is_diagonal_win", row |-> -1, column |-> -1,
                player |-> player, board |-> board,
                n_positions_remaining |-> n_positions_remaining,
                running |-> running,
                outcome |-> is_diagonal_win_on(shape, board, player)]
    /\ pc' = "answered"
    /\ UNCHANGED <<board, n_positions_remaining, ai_agent, shape, player, running,
                   pending, banner, mem>>

\* play(), lines 246-250 and 318-326: the agent of play() is asked for its
\* move on the game's board; what it was constructed with and the outcome
\* are recorded
AgentAsk ==
    /\ pc = "ask"
    /\ last' = [op |-> "ai_move", row |-> -1, column |-> -1,
                player |-> player, board |-> board,
                n_positions_remaining |-> n_positions_remaining,
                running |-> running,
                agent |-> Agent(ai_agent),
                outcome |-> ai_move_on(Agent(ai_agent), shape, board,
                                       n_positions_remaining)]
    /\ pc' = "answered"
    /\ UNCHANGED <<board, n_positions_remaining, ai_agent, shape, player, running,
                   pending, banner, mem>>

NextShapes ==
    \/ \E column \in 0..(shape.n_cols - 1) : DropShape(column)
    \/ DiagonalCheck
    \/ AgentAsk

SpecShapes == InitShapes /\ [][NextShapes]_vars

(***************************************************************************)
(* Agent.evaluate on its own: the agent of either player scores a board of *)
(* the caller's.  The boards are the positions of the recorded games, from *)
(* the empty board to the last placement.                                  *)
(***************************************************************************)

InitEval ==
    /\ \E g \in Games : \E k \in 0..Len(g.moves) : board = Replay(g.moves, k)
    /\ n_positions_remaining = n_open(board)
    /\ player \in {1, 2}
    /\ ai_agent = player
    /\ shape = DefaultShape
    /\ running = TRUE
    /\ pc = "ask"
    /\ pending = 0
    /\ banner = ""
    /\ mem = NoMem
    /\ last = [op |-> "start", row |-> -1, column |-> -1, player |-> 0,
               board |-> EmptyBoard, n_positions_remaining |-> 0,
               running |-> TRUE]

\* Agent(player).evaluate(board, p): the score is recorded
Evaluate(p) ==
    /\ pc = "ask"
    /\ last' = [op |-> "evaluate", row |-> -1, column |-> -1, player |-> p,
                board |-> board, n_positions_remaining |-> n_positions_remaining,
                running |-> running, outcome |-> evaluate(board, p)]
    /\ pc' = "answered"
    /\ UNCHANGED <<board, n_positions_remaining, ai_agent, shape, player, running,
                   pending, banner, mem>>

NextEval == \E p \in {1, 2} : Evaluate(p)

SpecEval == InitEval /\ [][NextEval]_vars

(***************************************************************************)
(* The properties.                                                         *)
(***************************************************************************)

\* C1: an agent asked for its move on a board with at least one empty cell
\* (the empty board for the agent of player 1, and every board built by
\* dropping pieces) gets a (row, column) back, and is_valid_move accepts it
\* on the board that was given: the column is not full and the row is the
\* lowest empty cell of the column.
C1_MoveIsValid ==
    (last.op \in {"ai_move", "raise"} /\ last.n_positions_remaining >= 1) =>
        /\ last.op = "ai_move"
        /\ is_valid_move(last.board, last.row, last.column)
        /\ at(last.board, 0, last.column) = 0
        /\ last.row = get_row(last.board, last.column)

\* The agent of player 1 has answered on the empty board.
C1_Witness ==
    /\ last.op = "ai_move"
    /\ last.board = EmptyBoard
    /\ last.player = 1
    /\ last.n_positions_remaining = n_rows * n_cols

\* C2: for every ai_agent setting, once a placement has filled the last
\* empty cell without completing a run, play() reports the draw and ends:
\* no ai_move is requested and no execute_move is made with
\* n_positions_remaining = 0, no exception leaves play(), and a loop that
\* ended on a full board without a winner has shown the draw banner.
C2_DrawEndsPlay ==
    /\ last.op \in {"ai_move", "raise", "execute_move"} => last.n_positions_remaining > 0
    /\ pc # "raised"
    /\ (pc = "done" /\ running /\ n_positions_remaining = 0) =>
           banner = "Draw - No Winners Here"

\* The human playing against the agent of player 1 has filled the board
\* without a run, and the agent was asked for a move all the same.
C2_Witness ==
    /\ ai_agent = 1
    /\ n_positions_remaining = 0
    /\ running
    /\ last.op = "raise"
    /\ last.player = 1

\* C3: when the agent of player 1 is asked for its move on a board where
\* player 1 holds three consecutive cells of a row and a cell next to them
\* in that row is empty and playable, the move it returns is such a cell:
\* it completes the row.
C3_TakesTheRowWin ==
    LET b == last.board
        run_from(row, col) ==
            /\ col >= 0 /\ col + 2 <= n_cols - 1
            /\ \A k \in 0..2 : at(b, row, col + k) = 1
        completes(row, col) ==
            /\ is_valid_move(b, row, col)
            /\ run_from(row, col + 1) \/ run_from(row, col - 3)
        winning == {rc \in (0..(n_rows - 1)) \X (0..(n_cols - 1)) : completes(rc[1], rc[2])}
    IN  (last.op = "ai_move" /\ last.player = 1 /\ winning # {}) =>
            <<last.row, last.column>> \in winning

\* In a game against the human the agent of player 1 was asked on a board
\* whose second row from the top reads 1 1 2 1 1 1 with the cell to the
\* right of the three (row 1, column 6) playable, and it played the top of
\* column 1.
C3_Witness ==
    /\ ai_agent = 1
    /\ last.op = "ai_move"
    /\ last.player = 1
    /\ \A col \in 3..5 : at(last.board, 1, col) = 1
    /\ is_valid_move(last.board, 1, 6)
    /\ <<last.row, last.column>> = <<0, 1>>

\* C4: when an agent is asked for its move on a board where the opponent
\* would complete a run by dropping a piece in some column, and no drop of
\* the agent's own completes a run, the move the agent returns is in a
\* column where the opponent would complete a run: it blocks.
C4_BlocksTheOpponent ==
    LET b == last.board
        me == last.player
        opponent == IF me = 1 THEN 2 ELSE 1
        open_columns == {c \in 0..(n_cols - 1) : get_row(b, c) # -1}
        wins(c, p) == is_winning_move(Drop(b, c, p), get_row(b, c), c, p)
        threats == {c \in open_columns : wins(c, opponent)}
    IN  (/\ last.op = "ai_move"
         /\ threats # {}
         /\ \A c \in open_columns : ~wins(c, me)) =>
            last.column \in threats

\* In a game against the human the agent of player 2 was asked on a board
\* where player 1 completes a run at row 3 of column 1 and nowhere else,
\* the agent had no winning drop, and it played the top of column 0.
C4_Witness ==
    /\ ai_agent = 2
    /\ last.op = "ai_move"
    /\ last.player = 2
    /\ get_row(last.board, 1) = 3
    /\ is_winning_move(Drop(last.board, 1, 1), 3, 1, 1)
    /\ \A c \in 0..(n_cols - 1) :
          get_row(last.board, c) # -1 =>
              /\ ~is_winning_move(Drop(last.board, c, 2), get_row(last.board, c), c, 2)
              /\ c # 1 => ~is_winning_move(Drop(last.board, c, 1), get_row(last.board, c), c, 1)
    /\ <<last.row, last.column>> = <<0, 0>>

\* C5: the search changes nothing it was given and no state changes its
\* parent. While ai_move runs and after it has returned, the caller's board
\* and positions-remaining count are what they were at the call, the root
\* state holds those cells, and every state of the tree is its parent's
\* cells plus one piece on a cell that is still empty in the parent, with
\* one position fewer; no step changes an array or a State object that
\* existed before it.
C5_SearchCopies ==
    /\ [](pc \in {"tree", "returned"} =>
            /\ board = last.board
            /\ n_positions_remaining = last.n_positions_remaining
            /\ mem.arrays[mem.nodes[1].state.positions] = last.board
            /\ mem.nodes[1].state.n_pos_open = last.n_positions_remaining
            /\ \A i \in 2..Len(mem.nodes) :
                  LET child == mem.nodes[i].state
                      parent == mem.nodes[mem.nodes[i].parent].state
                      cell == idx(child.move[1], child.move[2])
                  IN  /\ mem.arrays[parent.positions][cell] = 0
                      /\ mem.arrays[child.positions][cell] \in {1, 2}
                      /\ mem.arrays[child.positions] =
                            [mem.arrays[parent.positions] EXCEPT
                                ![cell] = mem.arrays[child.positions][cell]]
                      /\ child.n_pos_open = parent.n_pos_open - 1)
    /\ [][/\ \A ref \in 1..Len(mem.arrays) : mem'.arrays[ref] = mem.arrays[ref]
          /\ \A i \in 1..Len(mem.nodes) : mem'.nodes[i] = mem.nodes[i]]_vars

\* A search has returned whose tree holds two children of one parent that
\* have children of their own.
C5_Witness ==
    /\ pc = "returned"
    /\ \E i, j \in 2..Len(mem.nodes) :
          /\ i # j
          /\ mem.nodes[i].parent = mem.nodes[j].parent
          /\ \E k \in 2..Len(mem.nodes) : mem.nodes[k].parent = i
          /\ \E k \in 2..Len(mem.nodes) : mem.nodes[k].parent = j

\* How far outside the board the rows and columns asked about go.
Margin == 2

C7_DropPlacesLowest ==
    /\ last.op = "execute_move" =>
          /\ last.row \in 0..(n_rows - 1)
          /\ last.board[last.row * n_cols + last.column + 1] = 0
          /\ \A r \in (last.row + 1)..(n_rows - 1) :
                last.board[r * n_cols + last.column + 1] # 0
          /\ board[last.row * n_cols + last.column + 1] = last.player
          /\ \A i \in 1..(n_rows * n_cols) :
                i # last.row * n_cols + last.column + 1 => board[i] = last.board[i]
          /\ n_positions_remaining = last.n_positions_remaining - 1
    /\ last.op = "full" =>
          /\ \A r \in 0..(n_rows - 1) : last.board[r * n_cols + last.column + 1] # 0
          /\ board = last.board
          /\ n_positions_remaining = last.n_positions_remaining
    /\ \A column \in 0..(n_cols - 1) :
          (get_row(board, column) = -1) <=>
              \A r \in 0..(n_rows - 1) : board[r * n_cols + column + 1] # 0

\* Player 2 has dropped a piece that came to rest on another piece.
C7_Witness ==
    /\ last.op = "execute_move"
    /\ last.player = 2
    /\ last.row < n_rows - 1
    /\ board[last.row * n_cols + last.column + 1] = 2

\* C8: in every state of play, a column get_row reports full (-1) has a
\* piece in its top cell, a column whose top cell is empty is not reported
\* full, and a click that was discarded for a full column was on a column
\* with a piece in its top cell.
C8_FullMeansTopOccupied ==
    /\ \A column \in 0..(n_cols - 1) :
          /\ get_row(board, column) = -1 => board[column + 1] # 0
          /\ board[column + 1] = 0 => get_row(board, column) # -1
    /\ last.op = "full" => last.board[last.column + 1] # 0

\* A click has been discarded for a full column while another column has
\* only its top cell empty.
C8_Witness ==
    /\ last.op = "full"
    /\ get_row(board, last.column) = -1
    /\ \E column \in 0..(n_cols - 1) : get_row(board, column) = 0

\* C9: the step that discards a human's click on a full column changes no
\* cell of the board, leaves n_positions_remaining, the player to move and
\* running as they were, and leaves play() inside its loop.
C9_FullColumnDiscarded ==
    [][(last' # last /\ last'.op = "full") =>
          /\ board' = board
          /\ n_positions_remaining' = n_positions_remaining
          /\ player' = player
          /\ running' = running
          /\ pc' = "events"
          /\ last'.player = player]_vars

\* A click of player 2 on a full column has been discarded and the game
\* goes on with player 2 to move.
C9_Witness ==
    /\ last.op = "full"
    /\ last.player = 2
    /\ player = 2
    /\ running
    /\ pc = "while"
    /\ n_positions_remaining > 0

\* C10: after every placement made while the game was running, for both
\* players P, is_winning_move at the cell of that placement answers as a
\* scan of the whole board for n_to_win pieces of P in a line along a row,
\* a column or a diagonal.
C10_LastMoveCheckIsFullScan ==
    LET run(P, row, col, d_row, d_col) ==
            \A k \in 0..(n_to_win - 1) :
                /\ row + k * d_row \in 0..(n_rows - 1)
                /\ col + k * d_col \in 0..(n_cols - 1)
                /\ board[(row + k * d_row) * n_cols + (col + k * d_col) + 1] = P
        full_scan(P) ==
            \E row \in 0..(n_rows - 1) : \E col \in 0..(n_cols - 1) :
                \/ run(P, row, col, 0, 1)
                \/ run(P, row, col, 1, 0)
                \/ run(P, row, col, 1, 1)
                \/ run(P, row, col, -1, 1)
    IN  (last.op \in {"execute_move", "ai_move"} /\ last.running) =>
            \A P \in {1, 2} :
                is_winning_move(board, last.row, last.column, P) = full_scan(P)

\* A human has completed a run along a row and the game has stopped.
C10_Witness ==
    /\ last.op = "execute_move"
    /\ last.running
    /\ ~running
    /\ is_horizontal_win(board, last.row, last.player)
    /\ ~is_vertical_win(board, last.column, last.player)
    /\ ~is_diagonal_win(board, last.player)

\* A run of s.n_to_win cells of p along a down-right or an up-right diagonal,
\* all of them on the board.
DiagonalRun(s, b, p) ==
    \E row \in 0..(s.n_rows - 1), col \in 0..(s.n_cols - 1), d \in {1, -1} :
        \A k \in 0..(s.n_to_win - 1) :
            /\ 0 <= row + d * k /\ row + d * k < s.n_rows
            /\ col + k < s.n_cols
            /\ b[(row + d * k) * s.n_cols + col + k + 1] = p

\* C11: for every shape with n_to_win <= min(n_rows, n_cols), is_diagonal_win
\* reads no cell outside the board and answers True exactly when the player
\* has n_to_win consecutive cells on a diagonal of the board.
C11_DiagonalWinAnyShape ==
    last.op = "is_diagonal_win" =>
        last.outcome = (IF DiagonalRun(shape, last.board, last.player)
                        THEN "True" ELSE "False")

\* A game of n_to_win = 5 where is_diagonal_win answered True on four cells.
C11_Witness ==
    /\ last.op = "is_diagonal_win"
    /\ shape.n_to_win = 5
    /\ last.outcome = "True"
    /\ ~DiagonalRun(shape, last.board, last.player)

\* The board seen in a mirror: column c becomes column n_cols - 1 - c.
mirror(b) ==
    [i \in 1..(n_rows * n_cols) |->
        at(b, (i - 1) \div n_cols, n_cols - 1 - ((i - 1) % n_cols))]

\* The win detector gives the same answers on the mirrored board.
MirrorKeepsWins(b) ==
    \A p \in {1, 2}, row \in 0..(n_rows - 1), column \in 0..(n_cols - 1) :
        is_winning_move(mirror(b), row, n_cols - 1 - column, p)
            = is_winning_move(b, row, column, p)

\* C12: mirroring a board left to right preserves the answers of the win
\* detector and the value of evaluate(board, player), for each player.
C12_MirrorSymmetry ==
    last.op = "evaluate" =>
        /\ MirrorKeepsWins(last.board)
        /\ evaluate(mirror(last.board), last.player) = last.outcome

\* A board with pieces that is not its own mirror image has been scored.
C12_Witness ==
    /\ last.op = "evaluate"
    /\ mirror(last.board) # last.board
    /\ last.outcome # 0

\* Every window of n_to_win cells in the four directions, as the sequence of
\* its cells' positions in the board.
Windows ==
    LET steps == <<<<0, 1>>, <<1, 0>>, <<1, 1>>, <<-1, 1>>>>
        fits(row, col, d) ==
            /\ 0 <= row + steps[d][1] * (n_to_win - 1)
            /\ row + steps[d][1] * (n_to_win - 1) < n_rows
            /\ col + steps[d][2] * (n_to_win - 1) < n_cols
    IN  { [k \in 1..n_to_win |->
              idx(w[1] + steps[w[3]][1] * (k - 1), w[2] + steps[w[3]][2] * (k - 1))] :
          w \in { v \in (0..(n_rows - 1)) \X (0..(n_cols - 1)) \X (1..4) :
                     fits(v[1], v[2], v[3]) } }

\* The score of one window by the table: pieces of the player, of the
\* opponent, and empty cells.
WindowValue(b, w, p) ==
    LET mine   == Cardinality({k \in 1..n_to_win : b[w[k]] = p})
        empty  == Cardinality({k \in 1..n_to_win : b[w[k]] = 0})
        theirs == n_to_win - mine - empty
    IN  IF mine = n_to_win THEN 100
        ELSE IF mine = n_to_win - 1 /\ empty = 1 THEN 5
        ELSE IF mine = n_to_win - 2 /\ empty = 2 THEN 2
        ELSE IF theirs = n_to_win - 2 /\ empty = 2 THEN -2
        ELSE IF theirs = n_to_win - 1 /\ empty = 1 THEN -5
        ELSE IF theirs = n_to_win THEN -100
        ELSE 0

RECURSIVE SumOver(_, _, _)
SumOver(ws, b, p) ==
    IF ws = {} THEN 0
    ELSE LET w == CHOOSE x \in ws : TRUE
         IN  WindowValue(b, w, p) + SumOver(ws \ {w}, b, p)

WindowScore(b, p) == SumOver(Windows, b, p)

\* C13: evaluate(board, player) is the sum of the window scores of the table
\* over every window of n_to_win cells in the four directions.
C13_EvaluateIsWindowSum ==
    last.op = "evaluate" => last.outcome = WindowScore(last.board, last.player)

\* A board where both the table and evaluate give a score other than 0.
C13_Witness ==
    /\ last.op = "evaluate"
    /\ last.outcome # 0
    /\ WindowScore(last.board, last.player) # 0

\* The greatest and the least number of a set.
Greatest(S) == CHOOSE v \in S : \A w \in S : v >= w

Least(S) == CHOOSE v \in S : \A w \in S : v <= w

\* The value of a node in a full minimax over the tree of the search: the
\* static score for the agent at a node without children, else the greatest
\* (even depth) or the least (odd depth) of the values of all its children.
RECURSIVE FullValue(_, _, _, _)
RECURSIVE FullValueOf(_, _, _, _, _)
FullValue(state, depth, mover, agent) ==
    FullValueOf(state, depth, mover, agent, children(state, depth, mover))

FullValueOf(state, depth, mover, agent, kids) ==
    IF Len(kids) = 0 THEN evaluate(state.positions, agent)
    ELSE IF depth % 2 = 0
         THEN Greatest({FullValue(kids[i], depth + 1, next_player(mover), agent) :
                           i \in 1..Len(kids)})
         ELSE Least({FullValue(kids[i], depth + 1, next_player(mover), agent) :
                        i \in 1..Len(kids)})

\* The result of the full minimax at the root whose children are kids with the
\* values vals: the best value and the move of the first child that has it.
FullResult(kids, vals) ==
    LET best  == Greatest({vals[i] : i \in 1..Len(vals)})
        first == CHOOSE i \in 1..Len(vals) :
                     vals[i] = best /\ \A j \in 1..(i - 1) : vals[j] # best
    IN  <<best, kids[first].move>>

\* The full minimax for the agent on a board with children at the root.
FullMinimax(state, agent) ==
    FullResult(children(state, 0, agent),
               [i \in 1..Len(children(state, 0, agent)) |->
                   FullValue(children(state, 0, agent)[i], 1, next_player(agent), agent)]
               \o <<>>)

\* C14: the move and the score the search returns for a board are the move
\* and the score of a full minimax without pruning over the same tree (the
\* greatest at even depth, the least at odd depth, leaves scored by evaluate
\* for the agent), ties going to the first child.  Checked on the boards
\* with at most Remaining empty cells.
C14_SearchIsFullMinimax ==
    (last.op = "ai_move" /\ last.n_positions_remaining <= Remaining) =>
        <<minimax(set_state(last.board, last.n_positions_remaining), 0,
                  last.player, last.player)[1],
          <<last.row, last.column>>>>
        = FullMinimax(set_state(last.board, last.n_positions_remaining), last.player)

\* A search answered on a board with Remaining empty cells and more than one
\* column to choose from: its tree is cut by depth_limit.
C14_Witness ==
    /\ last.op = "ai_move"
    /\ last.n_positions_remaining = Remaining
    /\ Remaining > depth_limit
    /\ Len(children(set_state(last.board, last.n_positions_remaining), 0,
                    last.player)) > 1

\* C15: the agent play() creates searches with the game's n_rows, n_cols and
\* n_to_win, for a game of any shape: its move generation and evaluation take
\* the game's dimensions and stay on the game's board.
C15_AgentHasGameShape ==
    last.op = "ai_move" =>
        /\ last.agent.board_n_rows = shape.n_rows
        /\ last.agent.board_n_cols = shape.n_cols
        /\ last.agent.n_to_win = shape.n_to_win
        /\ last.outcome # "IndexError"

\* The agent of a game that is not 6x7 was asked for its move.
C15_Witness ==
    /\ last.op = "ai_move"
    /\ <<shape.n_rows, shape.n_cols>> # <<board_n_rows, board_n_cols>>
    /\ last.outcome = "IndexError"

\* The board holds a run of n_to_win pieces of p, by the win detector asked
\* at every cell.
has_won(b, p) ==
    \E row \in 0..(n_rows - 1), column \in 0..(n_cols - 1) :
        is_winning_move(b, row, column, p)

\* The State of node k of the tree, its positions read from the heap.
node_state(k) ==
    [positions  |-> mem.arrays[mem.nodes[k].state.positions],
     move       |-> mem.nodes[k].state.move,
     n_pos_open |-> mem.nodes[k].state.n_pos_open]

\* The value minimax gives node k of the finished tree of the agent's search.
node_value(k, agent) ==
    minimax(node_state(k), mem.nodes[k].depth,
            IF mem.nodes[k].depth % 2 = 0 THEN agent ELSE next_player(agent),
            agent)[1]

\* C16: a node of the search tree whose board holds a run of n_to_win pieces
\* of either player has no children, and its value is a win score: positive
\* when the run is the agent's, negative when it is the opponent's.
C16_NoSearchBelowAWin ==
    pc = "returned" =>
        \A k \in 1..Len(mem.nodes) :
            LET b == mem.arrays[mem.nodes[k].state.positions] IN
            /\ (has_won(b, 1) \/ has_won(b, 2)) =>
                   \A j \in 1..Len(mem.nodes) : mem.nodes[j].parent # k
            /\ (has_won(b, player) /\ ~has_won(b, next_player(player))) =>
                   node_value(k, player) > 0
            /\ (has_won(b, next_player(player)) /\ ~has_won(b, player)) =>
                   node_value(k, player) < 0

\* A finished tree with a node below a board that holds a run.
C16_Witness ==
    /\ pc = "returned"
    /\ \E k \in 1..Len(mem.nodes) :
          /\ mem.nodes[k].parent # 0
          /\ \E p \in {1, 2} :
                has_won(mem.arrays[mem.nodes[mem.nodes[k].parent].state.positions], p)

\* The nodes of the tree whose parent is node k.
children_of(k) == {j \in 1..Len(mem.nodes) : mem.nodes[j].parent = k}

\* C17: in the finished tree of a search, a node at depth d >= 1 differs from
\* its parent by one piece, the agent's when d is odd and the opponent's when
\* d is even; a node with children has the greatest of their values at even
\* depth and the least at odd depth; a node without children has the value
\* evaluate gives its board for the agent.
C17_DepthAndMoverInLockstep ==
    pc = "returned" =>
        \A k \in 1..Len(mem.nodes) :
            LET n == mem.nodes[k]
                b == mem.arrays[n.state.positions]
            IN  /\ n.depth >= 1 =>
                       LET above == mem.arrays[mem.nodes[n.parent].state.positions]
                           cell  == idx(n.state.move[1], n.state.move[2])
                       IN  /\ n.depth = mem.nodes[n.parent].depth + 1
                           /\ above[cell] = 0
                           /\ b[cell] = (IF n.depth % 2 = 1 THEN player ELSE 3 - player)
                           /\ \A i \in DOMAIN b : i # cell => b[i] = above[i]
                /\ children_of(k) = {} => node_value(k, player) = evaluate(b, player)
                /\ children_of(k) # {} =>
                       node_value(k, player) =
                           (IF n.depth % 2 = 0
                            THEN Greatest({node_value(j, player) : j \in children_of(k)})
                            ELSE Least({node_value(j, player) : j \in children_of(k)}))

\* A finished tree of three or more levels in which a node at odd depth and
\* a node at even depth each have several children to choose from.
C17_Witness ==
    /\ pc = "returned"
    /\ \E k \in 1..Len(mem.nodes) : mem.nodes[k].depth >= 3
    /\ \E k \in 1..Len(mem.nodes) :
          mem.nodes[k].depth % 2 = 1 /\ Cardinality(children_of(k)) > 1
    /\ \E k \in 1..Len(mem.nodes) :
          mem.nodes[k].depth % 2 = 0 /\ Cardinality(children_of(k)) > 1

\* C18: the children of a node of the search tree are the legal drops of the
\* mover, one for each column that is not full: the parent's board plus a
\* piece of the mover on the lowest empty cell of the column, n_pos_open one
\* less; and they are listed by increasing column.
C18_ChildrenAreDropsInColumnOrder ==
    pc = "returned" =>
        \A k \in 1..Len(mem.nodes) :
            LET n     == mem.nodes[k]
                b     == mem.arrays[n.state.positions]
                mover == IF n.depth % 2 = 0 THEN player ELSE 3 - player
            IN  (n.depth < depth_limit /\ n.state.n_pos_open > 0) =>
                    /\ \A column \in 0..(n_cols - 1) :
                           Cardinality({j \in children_of(k) :
                                           mem.nodes[j].state.move[2] = column})
                               = (IF get_row(b, column) # -1 THEN 1 ELSE 0)
                    /\ \A j \in children_of(k) :
                           LET c == mem.nodes[j].state IN
                           /\ c.move[1] = get_row(b, c.move[2])
                           /\ mem.arrays[c.positions] = Drop(b, c.move[2], mover)
                           /\ c.n_pos_open = n.state.n_pos_open - 1
                    /\ \A i, j \in children_of(k) :
                           i < j => mem.nodes[i].state.move[2] < mem.nodes[j].state.move[2]

\* A finished tree with a node that has children in several columns.
C18_Witness ==
    /\ pc = "returned"
    /\ \E k \in 1..Len(mem.nodes) : Cardinality(children_of(k)) > 1

\* The values minimax gives the children kids of the root of the agent's tree.
root_values(kids, agent) ==
    [i \in 1..Len(kids) |-> minimax(kids[i], 1, next_player(agent), agent)[1]] \o <<>>

\* The moves of the children of the root that have the best (greatest) value.
tied_moves(kids, vals) ==
    {kids[i].move : i \in {j \in 1..Len(kids) :
                              vals[j] = Greatest({vals[h] : h \in 1..Len(vals)})}}

\* The tied moves at the root of the agent's search on a board.
best_moves(board_state, n_pos_open, agent) ==
    tied_moves(children(set_state(board_state, n_pos_open), 0, agent),
               root_values(children(set_state(board_state, n_pos_open), 0, agent),
                           agent))

\* C19: the move of every child of the root that attains the best score is a
\* result ai_move can give for the board: ai_move has one result for a board,
\* so every such move is the move returned.  Stated for the boards with at
\* most Remaining empty cells.
C19_EveryTiedMovePossible ==
    (last.op = "ai_move" /\ last.n_positions_remaining <= Remaining) =>
        \A move \in best_moves(last.board, last.n_positions_remaining, last.player) :
            move = <<last.row, last.column>>

\* A search answered on a board where several children of the root share the
\* best score.
C19_Witness ==
    /\ last.op = "ai_move"
    /\ last.n_positions_remaining <= Remaining
    /\ Cardinality(best_moves(last.board, last.n_positions_remaining, last.player)) > 1

\* C20: a search that meets a node without legal children, the root included,
\* completes normally, and the value of the node is the score evaluate gives
\* its board for the agent.
C20_NoChildrenHandled ==
    (/\ last.op \in {"ai_move", "raise"}
     /\ children(set_state(last.board, last.n_positions_remaining), 0, last.player)
            = <<>>) =>
        /\ last.op = "ai_move"
        /\ minimax(set_state(last.board, last.n_positions_remaining), 0,
                   last.player, last.player)
               = <<evaluate(last.board, last.player), -1>>

\* The agent was asked for its move on a full board.
C20_Witness ==
    /\ last.op \in {"ai_move", "raise"}
    /\ last.n_positions_remaining = 0
    /\ \A i \in DOMAIN last.board : last.board[i] # 0

\* A board with open positions left by count is well formed: no piece sits
\* above an empty cell of its column, and the cells that are not empty are
\* n_rows * n_cols - open in number.
WellFormed(b, open) ==
    /\ \A row \in 0..(n_rows - 2), column \in 0..(n_cols - 1) :
           at(b, row + 1, column) = 0 => at(b, row, column) = 0
    /\ Cardinality({i \in DOMAIN b : b[i] # 0}) = n_rows * n_cols - open

\* Every node of the tree generate_tree builds below a node at the given depth
\* holds a well formed state; kids are the children of the node.
RECURSIVE TreeWellFormed(_, _, _)
RECURSIVE TreeWellFormedOf(_, _, _, _)
TreeWellFormed(state, depth, current_player) ==
    TreeWellFormedOf(state, depth, current_player,
                     children(state, depth, current_player))

TreeWellFormedOf(state, depth, current_player, kids) ==
    /\ WellFormed(state.positions, state.n_pos_open)
    /\ \A i \in 1..Len(kids) :
           TreeWellFormed(kids[i], depth + 1, next_player(current_player))

\* C21: in every state of play() the board is well formed with respect to
\* n_positions_remaining, and whenever play() asks an agent for its move every
\* node of the tree ai_move builds from the board is well formed with respect
\* to its n_pos_open.
C21_BoardsWellFormed ==
    /\ [](WellFormed(board, n_positions_remaining))
    /\ [][(last' # last /\ last'.op \in {"ai_move", "raise"}) =>
             TreeWellFormed(set_state(board, n_positions_remaining), 0, player)]_vars

\* The agent has answered on a board with several columns to choose from,
\* and clicks and answers have placed pieces since the start.
C21_Witness ==
    /\ last.op = "ai_move"
    /\ Len(children(set_state(last.board, last.n_positions_remaining), 0,
                    last.player)) > 1
    /\ n_positions_remaining < Remaining - 1

\* The nodes Agent.minimax visits when called on node k of the tree, in the
\* order of its calls: the node, then each child in creation order with all
\* that the call on it visits (rest are the children not yet called on).
RECURSIVE minimax_visits(_)
RECURSIVE minimax_visits_from(_)
minimax_visits(k) == <<k>> \o minimax_visits_from(children_of(k))

minimax_visits_from(rest) ==
    IF rest = {} THEN <<>>
    ELSE LET first == CHOOSE j \in rest : \A h \in rest : j <= h
         IN  minimax_visits(first) \o minimax_visits_from(rest \ {first})

\* C22: every call of ai_move comes to its end; no node of its tree is deeper
\* than depth_limit and none has more than n_cols children; in the finished
\* tree the nodes without children are those at depth_limit or with no open
\* position, and minimax visits every node exactly once.
C22_SearchTerminates ==
    /\ [](\A k \in 1..Len(mem.nodes) :
             /\ mem.nodes[k].depth <= depth_limit
             /\ Cardinality(children_of(k)) <= n_cols)
    /\ [](pc = "returned" =>
             /\ \A k \in 1..Len(mem.nodes) :
                    children_of(k) = {} <=>
                        (mem.nodes[k].depth = depth_limit
                             \/ mem.nodes[k].state.n_pos_open = 0)
             /\ Len(minimax_visits(1)) = Len(mem.nodes)
             /\ \A k \in 1..Len(mem.nodes) :
                    \E i \in 1..Len(mem.nodes) : minimax_visits(1)[i] = k)
    /\ (pc = "call" ~> pc = "returned")

\* A finished tree that was cut at depth_limit and has a node with several
\* children.
C22_Witness ==
    /\ pc = "returned"
    /\ \E k \in 1..Len(mem.nodes) :
          mem.nodes[k].depth = depth_limit /\ mem.nodes[k].state.n_pos_open > 0
    /\ \E k \in 1..Len(mem.nodes) : Cardinality(children_of(k)) > 1

\* C23: once a move has completed a run and running is False, play() places
\* no further piece: every placement, a human's or an agent's, is made while
\* running is still True.
C23_NoPieceAfterWin ==
    last.op \in {"execute_move", "ai_move"} => last.running

\* A click was handled as a placement after running had been set to False.
C23_Witness ==
    /\ last.op = "execute_move"
    /\ ~last.running
    /\ last.n_positions_remaining = n_positions_remaining + 1

====
